---- MODULE Spec2Model ----
(***************************************************************************)
(* A model of the two commands of the evaluation harness:                  *)
(*   run-test-suite.py  (generation: questions -> transcripts + manifest)  *)
(*   score-results.py   (scoring: transcript -> judge runs -> score file)  *)
(* and of the pure function parse_score.                                   *)
(*                                                                         *)
(* Texts that are parsed (the judge's output) are sequences of one-letter  *)
(* strings.  A transcript is the sequence of the fields its f-string       *)
(* writes, ten per block.  External calls are recorded in logs (askLog,    *)
(* judgeLog) and file writes in writeLog, in the order they are made.      *)
(***************************************************************************)
EXTENDS Integers, Sequences, FiniteSets, TLC

VARIABLES
    \* ---- run-test-suite.py: the environment the command is started in
    suite_exists,       \* test_suites/<suite> exists
    config_exists,      \* <suite>/config.yaml exists
    models,             \* config["models"]: the sequence of model names
    questions_exists,   \* the questions file exists
    questions,          \* the rows of the questions file, in file order
    filename_pattern,   \* config["output"]["filename_pattern"]
    \* ---- run-test-suite.py: the state of run_test_suite
    pc,                 \* position in run_test_suite / main
    raised,             \* the exception that ended the run ("none" if none)
    exit_status,        \* the process's exit status (-1 while running)
    results_dir,        \* the run directory has been created
    model_idx,          \* 1-based index of the model being processed
    question_count,     \* rows answered for the current model
    output,             \* the transcript buffer of the current model
    test_run_metadata,  \* test_run_metadata["models"]
    fs,                 \* the files of the run directory: name -> content
    askLog,             \* the calls of prompt(), in order
    writeLog,           \* the file writes, in order
    \* ---- score-results.py: the environment the command is started in
    scoring_config_exists,  \* scoring_config.yaml exists
    results_file_exists,    \* the results file named on the command line exists
    scoring_api,            \* config["api"]
    api_key_set,            \* ANTHROPIC_API_KEY is set and not empty
    repetitions,            \* config["repetitions"]
    \* ---- score-results.py: the state of main / score_results_file
    spc,                \* position in main / score_results_file
    s_raised,           \* the exception that ended the command ("none" if none)
    s_exit_status,      \* the process's exit status (-1 while running)
    s_traceback,        \* the exception left main uncaught
    n,                  \* the loop variable of the repetitions
    chunks_seen,        \* the chunks the last stream opened has delivered
    full_response,      \* the text accumulated from the stream
    result_text,        \* the text evaluate_results returned
    runs,               \* the parsed records, one per repetition
    judgeLog,           \* the calls made to the judge's endpoint, in order
    score_file,         \* the score artifact written (<<>> if none)
    \* ---- parse_score on its own
    p_pc,               \* "input" before the call, "parsed" after
    p_text,             \* the argument
    p_parsed,           \* the value returned
    \* ---- calculate_statistics on its own
    st_pc,              \* "input" before the call, "computed" after
    st_runs,            \* the argument
    st_stats,           \* the value returned
    \* ---- two invocations of run-test-suite.py for one test suite
    c_models,           \* config["models"], read by both
    c_pattern,          \* the filename pattern, read by both
    c_timestamp,        \* invocation -> its timestamp (0 before it is taken)
    c_pc,               \* invocation -> position in run_test_suite
    c_model_idx,        \* invocation -> index of the model being processed
    c_output,           \* invocation -> its transcript buffer
    c_metadata,         \* invocation -> its test_run_metadata["models"]
    c_fs,               \* results/: <<run directory, file name>> -> content
    c_writeLog          \* the file writes of both invocations, in order

runEnv == <<suite_exists, config_exists, models, questions_exists, questions,
            filename_pattern>>
runVars == <<pc, raised, exit_status, results_dir, model_idx, question_count,
             output, test_run_metadata, fs, askLog, writeLog>>

scoreEnv == <<scoring_config_exists, results_file_exists, scoring_api, api_key_set,
              repetitions>>
scoreVars == <<spc, s_raised, s_exit_status, s_traceback, n, chunks_seen,
               full_response, result_text, runs, judgeLog, score_file>>
parseVars == <<p_pc, p_text, p_parsed>>
statsVars == <<st_pc, st_runs, st_stats>>
concVars == <<c_models, c_pattern, c_timestamp, c_pc, c_model_idx, c_output,
              c_metadata, c_fs, c_writeLog>>

vars == <<runEnv, runVars, scoreEnv, scoreVars, parseVars, statsVars, concVars>>

\* What the actions of one command leave alone: their own environment and
\* everything of the other command.
runFrame == <<runEnv, scoreEnv, scoreVars, parseVars, statsVars, concVars>>
scoreFrame == <<scoreEnv, runEnv, runVars, parseVars, statsVars, concVars>>
parseFrame == <<runEnv, runVars, scoreEnv, scoreVars, statsVars, concVars>>
statsFrame == <<runEnv, runVars, scoreEnv, scoreVars, parseVars, concVars>>
concFrame == <<runEnv, runVars, scoreEnv, scoreVars, parseVars, statsVars,
               c_models, c_pattern>>

\* ---------------------------------------------------------------- bounds
MaxModels == 2
MaxQuestions == 2
MaxRepetitions == 2
MaxChunks == 2
MaxRuns == 3

ModelNames == {"llama", "qwen"}
QuestionIds == {1, 2}
Answers == {"yes", "no"}

\* All sequences over S of length at most max.
SeqsUpTo(S, max) == UNION {[1..k -> S] : k \in 0..max}

\* ------------------------------------------------------- the questions file
\* One row of the questions file, as csv.DictReader yields it.
QuestionRow(id) ==
    [ID |-> id, Section |-> <<"section", id>>, Question |-> <<"question", id>>,
     ExpectedAnswer |-> <<"expected", id>>]

\* ------------------------------------------------------------ file names
\* A filename pattern is a sequence of literal pieces and placeholders.
FilenamePatterns ==
    { <<"results_", "{model}", ".txt">>,     \* the default
      <<"results.txt">>,                     \* no placeholder
      <<"resultset", ".json">> }             \* no placeholder, the manifest's name

\* str.format(model=..., timestamp=...) on a pattern.
FormatFilename(pattern, model_name, timestamp) ==
    [i \in 1..Len(pattern) |->
        IF pattern[i] = "{model}" THEN model_name
        ELSE IF pattern[i] = "{timestamp}" THEN timestamp
        ELSE pattern[i]]

ManifestName == <<"resultset", ".json">>

\* open(path, "w") followed by a write: the file is created or replaced.
WriteFile(files, name, content) ==
    [f \in (DOMAIN files) \cup {name} |-> IF f = name THEN content ELSE files[f]]

\* The f-string of one answer block.
FormatBlock(row, result) ==
    <<"---", "NO.", row.ID, row.Section, "QUESTION:", row.Question,
      "EXPECTED ANSWER:", row.ExpectedAnswer, "ACTUAL ANSWER:", result>>

\* The value of datetime.now().strftime(...) of this run.
Timestamp == "timestamp"

\* ------------------------------------------------- run-test-suite.py: Init
\* The run command is not started.
RunIdle ==
    /\ suite_exists = FALSE
    /\ config_exists = FALSE
    /\ models = <<>>
    /\ questions_exists = FALSE
    /\ questions = <<>>
    /\ filename_pattern = <<>>
    /\ pc = "idle"
    /\ raised = "none"
    /\ exit_status = -1
    /\ results_dir = FALSE
    /\ model_idx = 0
    /\ question_count = 0
    /\ output = <<>>
    /\ test_run_metadata = <<>>
    /\ fs = <<>>
    /\ askLog = <<>>
    /\ writeLog = <<>>

RunStart ==
    /\ suite_exists \in BOOLEAN
    /\ config_exists \in BOOLEAN
    /\ models \in SeqsUpTo(ModelNames, MaxModels)
    /\ questions_exists \in BOOLEAN
    /\ questions \in {[i \in DOMAIN ids |-> QuestionRow(ids[i])] :
                        ids \in SeqsUpTo(QuestionIds, MaxQuestions)}
    /\ filename_pattern \in FilenamePatterns
    /\ pc = "start"
    /\ raised = "none"
    /\ exit_status = -1
    /\ results_dir = FALSE
    /\ model_idx = 0
    /\ question_count = 0
    /\ output = <<>>
    /\ test_run_metadata = <<>>
    /\ fs = <<>>
    /\ askLog = <<>>
    /\ writeLog = <<>>

\* main's handler: print the error, re-raise; the process ends with status 1.
Raise(e) ==
    /\ pc' = "error"
    /\ raised' = e
    /\ exit_status' = 1

\* ---------------------------------------------- run-test-suite.py: actions
\* test_suite_path.exists() check.
CheckSuite ==
    /\ pc = "start"
    /\ IF ~suite_exists
       THEN Raise("suite_not_found")
       ELSE pc' = "mkdir" /\ UNCHANGED <<raised, exit_status>>
    /\ UNCHANGED <<runFrame, results_dir, model_idx, question_count, output,
                   test_run_metadata, fs, askLog, writeLog>>

\* results_path.mkdir(parents=True, exist_ok=True)
MakeResultsDir ==
    /\ pc = "mkdir"
    /\ results_dir' = TRUE
    /\ pc' = "load_config"
    /\ UNCHANGED <<runFrame, raised, exit_status, model_idx, question_count, output,
                   test_run_metadata, fs, askLog, writeLog>>

\* load_config(test_suite_path)
LoadConfig ==
    /\ pc = "load_config"
    /\ IF ~config_exists
       THEN Raise("config_not_found")
       ELSE pc' = "get_models" /\ UNCHANGED <<raised, exit_status>>
    /\ UNCHANGED <<runFrame, results_dir, model_idx, question_count, output,
                   test_run_metadata, fs, askLog, writeLog>>

\* The manifest is created with no models; an empty model list is an error.
GetModels ==
    /\ pc = "get_models"
    /\ test_run_metadata' = <<>>
    /\ IF models = <<>>
       THEN Raise("no_models")
       ELSE pc' = "check_questions" /\ UNCHANGED <<raised, exit_status>>
    /\ UNCHANGED <<runFrame, results_dir, model_idx, question_count, output,
                   fs, askLog, writeLog>>

\* The questions file is not checked before the loop.
CheckQuestionsSkipped ==
    /\ pc = "check_questions"
    /\ pc' = "next_model"
    /\ UNCHANGED <<runFrame, raised, exit_status, results_dir, model_idx,
                   question_count, output, test_run_metadata, fs, askLog, writeLog>>

\* create_client, then the questions_path.exists() check.
CheckQuestions ==
    /\ pc = "check_questions"
    /\ IF ~questions_exists
       THEN Raise("questions_not_found")
       ELSE pc' = "next_model" /\ UNCHANGED <<raised, exit_status>>
    /\ UNCHANGED <<runFrame, results_dir, model_idx, question_count, output,
                   test_run_metadata, fs, askLog, writeLog>>

\* The head of the per-model loop with the buffer set up once, before the
\* loop: the next model appends to what is there.
NextModelKeepingBuffer ==
    /\ pc = "next_model"
    /\ IF model_idx < Len(models)
       THEN /\ model_idx' = model_idx + 1
            /\ question_count' = 0
            /\ pc' = "questions"
            /\ UNCHANGED output
       ELSE /\ pc' = "write_manifest"
            /\ UNCHANGED <<model_idx, output, question_count>>
    /\ UNCHANGED <<runFrame, raised, exit_status, results_dir, test_run_metadata,
                   fs, askLog, writeLog>>

\* The head of the per-model loop: the next model, with a fresh buffer, or
\* the end of the loop.
NextModel ==
    /\ pc = "next_model"
    /\ IF model_idx < Len(models)
       THEN /\ model_idx' = model_idx + 1
            /\ output' = <<>>
            /\ question_count' = 0
            /\ pc' = "questions"
       ELSE /\ pc' = "write_manifest"
            /\ UNCHANGED <<model_idx, output, question_count>>
    /\ UNCHANGED <<runFrame, raised, exit_status, results_dir, test_run_metadata,
                   fs, askLog, writeLog>>

\* The call made by prompt(): the model, the question, and how it ended.
AskCall(row, result) ==
    [model_idx |-> model_idx, model |-> models[model_idx],
     question |-> row.Question, result |-> result]

\* Ask with a retry: a failed call is made again instead of raising.
AskRetrying ==
    /\ pc = "questions"
    /\ question_count < Len(questions)
    /\ LET row == questions[question_count + 1] IN
       \/ \E result \in Answers :
             /\ askLog' = Append(askLog, AskCall(row, result))
             /\ question_count' = question_count + 1
             /\ output' = output \o FormatBlock(row, result)
             /\ UNCHANGED <<pc, raised, exit_status>>
       \/ /\ Len(askLog) < MaxModels * MaxQuestions
          /\ askLog' = Append(askLog, AskCall(row, "failed"))
          /\ UNCHANGED <<pc, raised, exit_status, question_count, output>>
    /\ UNCHANGED <<runFrame, results_dir, model_idx, test_run_metadata, fs, writeLog>>

\* Ask with skip-and-continue: a failed call drops its question and the
\* loop goes on.
AskSkipOnFailure ==
    /\ pc = "questions"
    /\ question_count < Len(questions)
    /\ LET row == questions[question_count + 1] IN
       \/ \E result \in Answers :
             /\ askLog' = Append(askLog, AskCall(row, result))
             /\ question_count' = question_count + 1
             /\ output' = output \o FormatBlock(row, result)
             /\ UNCHANGED <<pc, raised, exit_status>>
       \/ /\ askLog' = Append(askLog, AskCall(row, "failed"))
          /\ question_count' = question_count + 1
          /\ raised' = "ask_failed"
          /\ UNCHANGED <<pc, exit_status, output>>
    /\ UNCHANGED <<runFrame, results_dir, model_idx, test_run_metadata, fs, writeLog>>

\* Ask with the failure caught per model: the failing model is given up and
\* the loop goes on with the next one.
AskFailureSkipsModel ==
    /\ pc = "questions"
    /\ question_count < Len(questions)
    /\ LET row == questions[question_count + 1] IN
       \/ \E result \in Answers :
             /\ askLog' = Append(askLog, AskCall(row, result))
             /\ question_count' = question_count + 1
             /\ output' = output \o FormatBlock(row, result)
             /\ UNCHANGED <<pc, raised, exit_status>>
       \/ /\ askLog' = Append(askLog, AskCall(row, "failed"))
          /\ pc' = "next_model"
          /\ raised' = "ask_failed"
          /\ UNCHANGED <<exit_status, question_count, output>>
    /\ UNCHANGED <<runFrame, results_dir, model_idx, test_run_metadata, fs, writeLog>>

\* One iteration of the row loop: one call of prompt(), which returns an
\* answer or raises; an answer is appended to the buffer as one block.
Ask ==
    /\ pc = "questions"
    /\ question_count < Len(questions)
    /\ LET row == questions[question_count + 1] IN
       \/ \E result \in Answers :
             /\ askLog' = Append(askLog, AskCall(row, result))
             /\ question_count' = question_count + 1
             /\ output' = output \o FormatBlock(row, result)
             /\ UNCHANGED <<pc, raised, exit_status>>
       \/ /\ askLog' = Append(askLog, AskCall(row, "failed"))
          /\ Raise("ask_failed")
          /\ UNCHANGED <<question_count, output>>
    /\ UNCHANGED <<runFrame, results_dir, model_idx, test_run_metadata, fs, writeLog>>

\* After the last row: the file name is formatted and open(output_path, "w")
\* creates the file, or empties the one of that name.
OpenOutput ==
    /\ pc = "questions"
    /\ question_count = Len(questions)
    /\ LET filename == FormatFilename(filename_pattern, models[model_idx], Timestamp)
       IN fs' = WriteFile(fs, filename, [kind |-> "transcript", body |-> <<>>])
    /\ pc' = "write_output"
    /\ UNCHANGED <<runFrame, raised, exit_status, results_dir, model_idx,
                   question_count, output, test_run_metadata, askLog, writeLog>>

\* f.write(output) and the close of the file: the buffer is on disk.
WriteOutput ==
    /\ pc = "write_output"
    /\ LET filename == FormatFilename(filename_pattern, models[model_idx], Timestamp)
           content == [kind |-> "transcript", body |-> output]
       IN /\ fs' = WriteFile(fs, filename, content)
          /\ writeLog' = Append(writeLog, [name |-> filename, content |-> content,
                                           model_idx |-> model_idx])
    /\ pc' = "update_manifest"
    /\ UNCHANGED <<runFrame, raised, exit_status, results_dir, model_idx,
                   question_count, output, test_run_metadata, askLog>>

\* test_run_metadata["models"].append(...)
UpdateManifest ==
    /\ pc = "update_manifest"
    /\ test_run_metadata' = Append(test_run_metadata,
            [model_name |-> models[model_idx],
             results_file |-> FormatFilename(filename_pattern, models[model_idx],
                                             Timestamp)])
    /\ pc' = "next_model"
    /\ UNCHANGED <<runFrame, raised, exit_status, results_dir, model_idx,
                   question_count, output, fs, askLog, writeLog>>

\* After the loop: json.dump of the manifest to resultset.json.
WriteManifest ==
    /\ pc = "write_manifest"
    /\ LET content == [kind |-> "manifest", body |-> test_run_metadata]
       IN /\ fs' = WriteFile(fs, ManifestName, content)
          /\ writeLog' = Append(writeLog, [name |-> ManifestName, content |-> content,
                                           model_idx |-> 0])
    /\ pc' = "done"
    /\ exit_status' = 0
    /\ UNCHANGED <<runFrame, raised, results_dir, model_idx, question_count, output,
                   test_run_metadata, askLog>>

\* The process is terminated from outside at any point (an interrupt is no
\* Exception, so main's handler does not see it; a kill sees no handler).
Crash ==
    /\ pc \notin {"idle", "done", "error", "crashed"}
    /\ pc' = "crashed"
    /\ exit_status' = 130
    /\ UNCHANGED <<runFrame, raised, results_dir, model_idx, question_count, output,
                   test_run_metadata, fs, askLog, writeLog>>

RunNext ==
    \/ CheckSuite
    \/ MakeResultsDir
    \/ LoadConfig
    \/ GetModels
    \/ CheckQuestions
    \/ NextModel
    \/ Ask
    \/ OpenOutput
    \/ WriteOutput
    \/ UpdateManifest
    \/ WriteManifest
    \/ Crash


\* ================================================== score-results.py: texts
\* A text is a sequence of one-letter strings.
Digits == {"0", "1", "2", "3", "4", "5", "6", "7", "8", "9"}

\* The characters the pattern's \d and \s match, among those of the model.
IsDigit(c) == c \in Digits

IsSpace(c) == c \in {" ", "\t", "\n"}

DigitValue(c) ==
    CASE c = "0" -> 0 [] c = "1" -> 1 [] c = "2" -> 2 [] c = "3" -> 3
      [] c = "4" -> 4 [] c = "5" -> 5 [] c = "6" -> 6 [] c = "7" -> 7
      [] c = "8" -> 8 [] c = "9" -> 9

\* int(): the value of a nonempty sequence of digits.
RECURSIVE ToInt(_)
ToInt(ds) ==
    IF ds = <<>> THEN 0
    ELSE 10 * ToInt(SubSeq(ds, 1, Len(ds) - 1)) + DigitValue(ds[Len(ds)])

\* Greedy \d+ and \s+ from position i: the position after the longest run
\* (i itself when the run is empty).
RECURSIVE DigitsEnd(_, _)
DigitsEnd(text, i) ==
    IF i <= Len(text) /\ IsDigit(text[i]) THEN DigitsEnd(text, i + 1) ELSE i

RECURSIVE SpacesEnd(_, _)
SpacesEnd(text, i) ==
    IF i <= Len(text) /\ IsSpace(text[i]) THEN SpacesEnd(text, i + 1) ELSE i

\* A-Z to a-z, for the letters of the pattern.
Lower(c) ==
    CASE c = "O" -> "o" [] c = "U" -> "u" [] c = "T" -> "t" [] c = "F" -> "f"
      [] OTHER -> c

\* The literal letters of the pattern at position i, compared ignoring case
\* (the pattern compiled with re.IGNORECASE).
HasWordIgnoreCase(text, i, word) ==
    /\ i + Len(word) - 1 <= Len(text)
    /\ \A k \in 1..Len(word) : Lower(text[i + k - 1]) = word[k]

\* The literal letters of the pattern at position i: the pattern is compiled
\* with no flag, so the comparison is exact.
HasWord(text, i, word) ==
    /\ i + Len(word) - 1 <= Len(text)
    /\ \A k \in 1..Len(word) : text[i + k - 1] = word[k]

\* The pattern (\d+)\s+out\s+of\s+(\d+) tried at position i.  Each
\* quantifier is greedy and what follows it cannot start with a character it
\* matches, so the longest run is the only way to match.
MatchAt(text, i) ==
    LET d1 == DigitsEnd(text, i)
        s1 == SpacesEnd(text, d1)
        s2 == SpacesEnd(text, s1 + 3)
        s3 == SpacesEnd(text, s2 + 2)
        d2 == DigitsEnd(text, s3)
    IN [matched |-> /\ d1 > i
                    /\ s1 > d1
                    /\ HasWord(text, s1, <<"o", "u", "t">>)
                    /\ s2 > s1 + 3
                    /\ HasWord(text, s2, <<"o", "f">>)
                    /\ s3 > s2 + 2
                    /\ d2 > s3,
        group1 |-> SubSeq(text, i, d1 - 1),
        group2 |-> SubSeq(text, s3, d2 - 1)]

\* re.search: the match at the leftmost position that has one.
MatchPositions(text) == {i \in 1..Len(text) : MatchAt(text, i).matched}

Min(S) == CHOOSE x \in S : \A y \in S : x <= y

Max(S) == CHOOSE x \in S : \A y \in S : x >= y

\* An absent value (None) and a present one.
None == <<>>

Some(v) == <<v>>

\* str.strip()
RECURSIVE StripEnd(_)
StripEnd(text) ==
    IF text # <<>> /\ IsSpace(text[Len(text)])
    THEN StripEnd(SubSeq(text, 1, Len(text) - 1))
    ELSE text

\* str.rstrip() in the place of str.strip(): leading whitespace is kept.
StripTrailingOnly(text) == StripEnd(text)

Strip(text) == StripEnd(SubSeq(text, SpacesEnd(text, 1), Len(text)))

\* a / b rounded to the nearest integer, a tie to the even one (a >= 0, b > 0).
RoundHalfEven(a, b) ==
    LET q == a \div b
        r == a % b
    IN IF 2 * r < b THEN q
       ELSE IF 2 * r > b THEN q + 1
       ELSE IF q % 2 = 0 THEN q ELSE q + 1

\* a / b with the fraction dropped.
PercentageTruncated(correct, total) ==
    IF total > 0 THEN (correct * 10000) \div total ELSE 0

\* round(correct / total * 100, 2) if total > 0 else 0, in hundredths of a
\* percent.
Percentage(correct, total) ==
    IF total > 0 THEN RoundHalfEven(correct * 10000, total) ELSE 0

\* parse_score
ParseScore(text) ==
    IF MatchPositions(text) # {}
    THEN LET m == MatchAt(text, Min(MatchPositions(text)))
             correct == ToInt(m.group1)
             total == ToInt(m.group2)
         IN [correct |-> Some(correct),
             total |-> Some(total),
             percentage |-> Some(Percentage(correct, total)),
             raw_output |-> Strip(text),
             parse_error |-> FALSE]
    ELSE [correct |-> None,
          total |-> None,
          percentage |-> None,
          raw_output |-> Strip(text),
          parse_error |-> TRUE]

\* calculate_statistics: means in hundredths (round(x, 2)), extrema, and
\* whether every run parsed.
RECURSIVE SumSeq(_)
SumSeq(xs) == IF xs = <<>> THEN 0 ELSE xs[1] + SumSeq(Tail(xs))

\* all_runs_parsed computed as "some run parsed".
CalculateStatisticsAnyParsed(rs) ==
    LET parsed == SelectSeq(rs, LAMBDA r : r.correct # None)
        correct_scores == [i \in DOMAIN parsed |-> parsed[i].correct[1]]
        with_pct == SelectSeq(rs, LAMBDA r : r.percentage # None)
        percentages == [i \in DOMAIN with_pct |-> with_pct[i].percentage[1]]
    IN IF correct_scores = <<>>
       THEN [mean_correct |-> None,
             mean_percentage |-> None,
             min_correct |-> None,
             max_correct |-> None,
             all_runs_parsed |-> FALSE]
       ELSE [mean_correct |->
                Some(RoundHalfEven(100 * SumSeq(correct_scores), Len(correct_scores))),
             mean_percentage |->
                Some(RoundHalfEven(SumSeq(percentages), Len(percentages))),
             min_correct |-> Some(Min({correct_scores[i] : i \in DOMAIN correct_scores})),
             max_correct |-> Some(Max({correct_scores[i] : i \in DOMAIN correct_scores})),
             all_runs_parsed |-> TRUE]

\* The means divided by the number of runs: a run that did not parse counts
\* as a zero.
CalculateStatisticsUnparsedAsZero(rs) ==
    LET parsed == SelectSeq(rs, LAMBDA r : r.correct # None)
        correct_scores == [i \in DOMAIN parsed |-> parsed[i].correct[1]]
        with_pct == SelectSeq(rs, LAMBDA r : r.percentage # None)
        percentages == [i \in DOMAIN with_pct |-> with_pct[i].percentage[1]]
    IN IF correct_scores = <<>>
       THEN [mean_correct |-> None,
             mean_percentage |-> None,
             min_correct |-> None,
             max_correct |-> None,
             all_runs_parsed |-> FALSE]
       ELSE [mean_correct |->
                Some(RoundHalfEven(100 * SumSeq(correct_scores), Len(rs))),
             mean_percentage |->
                Some(RoundHalfEven(SumSeq(percentages), Len(rs))),
             min_correct |-> Some(Min({correct_scores[i] : i \in DOMAIN correct_scores})),
             max_correct |-> Some(Max({correct_scores[i] : i \in DOMAIN correct_scores})),
             all_runs_parsed |-> Len(correct_scores) = Len(rs)]

CalculateStatistics(rs) ==
    LET parsed == SelectSeq(rs, LAMBDA r : r.correct # None)
        correct_scores == [i \in DOMAIN parsed |-> parsed[i].correct[1]]
        with_pct == SelectSeq(rs, LAMBDA r : r.percentage # None)
        percentages == [i \in DOMAIN with_pct |-> with_pct[i].percentage[1]]
    IN IF correct_scores = <<>>
       THEN [mean_correct |-> None,
             mean_percentage |-> None,
             min_correct |-> None,
             max_correct |-> None,
             all_runs_parsed |-> FALSE]
       ELSE [mean_correct |->
                Some(RoundHalfEven(100 * SumSeq(correct_scores), Len(correct_scores))),
             mean_percentage |->
                Some(RoundHalfEven(SumSeq(percentages), Len(percentages))),
             min_correct |-> Some(Min({correct_scores[i] : i \in DOMAIN correct_scores})),
             max_correct |-> Some(Max({correct_scores[i] : i \in DOMAIN correct_scores})),
             all_runs_parsed |-> Len(correct_scores) = Len(rs)]

\* ================================================ score-results.py: command
\* The texts the judge's endpoint delivers: the chunks of a stream, and the
\* whole text of a non-streaming response.
StreamChunks ==
    { <<"5", " ", "o", "u", "t">>, <<" ", "o", "f", " ", "8", "\n">> }

ResponseTexts ==
    { <<"7", " ", "o", "u", "t", " ", "o", "f", " ", "8">>, <<"n", "/", "a">> }

\* The transcript read from the results file, the fixed prompt and the judge
\* model of the configuration.
Content == "transcript"

EvaluationPrompt == "EVALUATION_PROMPT"

ScoringModel == "judge"

NoRecord ==
    [correct |-> None, total |-> None, percentage |-> None, raw_output |-> <<>>,
     parse_error |-> FALSE]

\* The score command is not started.
ScoreIdle ==
    /\ scoring_config_exists = FALSE
    /\ results_file_exists = FALSE
    /\ scoring_api = "none"
    /\ api_key_set = FALSE
    /\ repetitions = 0
    /\ spc = "idle"
    /\ s_raised = "none"
    /\ s_exit_status = -1
    /\ s_traceback = FALSE
    /\ n = 0
    /\ chunks_seen = <<>>
    /\ full_response = <<>>
    /\ result_text = <<>>
    /\ runs = <<>>
    /\ judgeLog = <<>>
    /\ score_file = <<>>

ScoreStart ==
    /\ scoring_config_exists \in BOOLEAN
    /\ results_file_exists \in BOOLEAN
    /\ scoring_api \in {"anthropic", "local", "other"}
    /\ api_key_set \in BOOLEAN
    /\ repetitions \in 0..MaxRepetitions
    /\ spc = "load_config"
    /\ s_raised = "none"
    /\ s_exit_status = -1
    /\ s_traceback = FALSE
    /\ n = 0
    /\ chunks_seen = <<>>
    /\ full_response = <<>>
    /\ result_text = <<>>
    /\ runs = <<>>
    /\ judgeLog = <<>>
    /\ score_file = <<>>

\* An exception raised inside score_results_file: main prints it and exits
\* with status 1.
ScoreRaise(e) ==
    /\ spc' = "error"
    /\ s_raised' = e
    /\ s_exit_status' = 1
    /\ s_traceback' = FALSE

\* main calls load_config() outside its try: a missing file leaves main as an
\* uncaught exception.
ScoreLoadConfig ==
    /\ spc = "load_config"
    /\ IF ~scoring_config_exists
       THEN /\ spc' = "error"
            /\ s_raised' = "config_not_found"
            /\ s_exit_status' = 1
            /\ s_traceback' = TRUE
       ELSE spc' = "check_results" /\ UNCHANGED <<s_raised, s_exit_status, s_traceback>>
    /\ UNCHANGED <<scoreFrame, n, chunks_seen, full_response, result_text, runs,
                   judgeLog, score_file>>

\* results_path.exists() check; then the file is read.
CheckResults ==
    /\ spc = "check_results"
    /\ IF ~results_file_exists
       THEN ScoreRaise("results_not_found")
       ELSE spc' = "create_client" /\ UNCHANGED <<s_raised, s_exit_status, s_traceback>>
    /\ UNCHANGED <<scoreFrame, n, chunks_seen, full_response, result_text, runs,
                   judgeLog, score_file>>

\* create_client: the Anthropic client needs its key; an api other than
\* "anthropic" and "local" is refused.  Then the loop starts with no runs.
CreateClient ==
    /\ spc = "create_client"
    /\ IF scoring_api = "anthropic" /\ ~api_key_set
       THEN ScoreRaise("api_key_missing") /\ UNCHANGED <<runs, n>>
       ELSE IF scoring_api \notin {"anthropic", "local"}
       THEN ScoreRaise("unsupported_api") /\ UNCHANGED <<runs, n>>
       ELSE /\ runs' = <<>>
            /\ n' = 0
            /\ spc' = "loop"
            /\ UNCHANGED <<s_raised, s_exit_status, s_traceback>>
    /\ UNCHANGED <<scoreFrame, chunks_seen, full_response, result_text, judgeLog,
                   score_file>>

\* A loop that tests its condition after the body: one repetition is made
\* whatever the count.
LoopHeadAtLeastOnce ==
    /\ spc = "loop"
    /\ IF n < repetitions \/ n = 0 THEN spc' = "evaluate" ELSE spc' = "write_scores"
    /\ UNCHANGED <<scoreFrame, s_raised, s_exit_status, s_traceback, n, chunks_seen,
                   full_response, result_text, runs, judgeLog, score_file>>

\* for n in range(repetitions): the next repetition, or the end of the loop.
LoopHead ==
    /\ spc = "loop"
    /\ IF n < repetitions THEN spc' = "evaluate" ELSE spc' = "write_scores"
    /\ UNCHANGED <<scoreFrame, s_raised, s_exit_status, s_traceback, n, chunks_seen,
                   full_response, result_text, runs, judgeLog, score_file>>

\* One call to the judge's endpoint, as it is logged: its arguments, how it
\* ended ("open" while a stream is being consumed) and the text it gave.
JudgeCall(mode, content, outcome, text) ==
    [run_number |-> n + 1, api |-> scoring_api, mode |-> mode,
     model |-> ScoringModel, system |-> EvaluationPrompt, content |-> content,
     outcome |-> outcome, text |-> text]

\* The last call of the log, ended.
EndLastCall(log, outcome, text) ==
    [log EXCEPT ![Len(log)].outcome = outcome, ![Len(log)].text = text]

\* evaluate_with_anthropic / evaluate_with_local: the streaming call is made;
\* it opens a stream, or fails and the handler takes over.
StreamOpen ==
    /\ spc = "evaluate"
    /\ full_response' = <<>>
    /\ chunks_seen' = <<>>
    /\ \/ /\ judgeLog' = Append(judgeLog, JudgeCall("stream", Content, "open", <<>>))
          /\ spc' = "streaming"
       \/ /\ judgeLog' = Append(judgeLog, JudgeCall("stream", Content, "failed", <<>>))
          /\ spc' = "fallback"
    /\ UNCHANGED <<scoreFrame, s_raised, s_exit_status, s_traceback, n, result_text,
                   runs, score_file>>

\* The stream delivers one more chunk, which is appended.
StreamChunk ==
    /\ spc = "streaming"
    /\ Len(chunks_seen) < MaxChunks
    /\ \E chunk \in StreamChunks :
          /\ full_response' = full_response \o chunk
          /\ chunks_seen' = Append(chunks_seen, chunk)
    /\ UNCHANGED <<scoreFrame, spc, s_raised, s_exit_status, s_traceback, n,
                   result_text, runs, judgeLog, score_file>>

\* The stream breaks while it is consumed and the exception leaves the
\* function: no handler around the loop.
StreamFailRaises ==
    /\ spc = "streaming"
    /\ judgeLog' = EndLastCall(judgeLog, "failed", <<>>)
    /\ ScoreRaise("judge_failed")
    /\ UNCHANGED <<scoreFrame, n, chunks_seen, full_response, result_text, runs,
                   score_file>>

\* The stream breaks while it is consumed: the handler takes over.
StreamFail ==
    /\ spc = "streaming"
    /\ judgeLog' = EndLastCall(judgeLog, "failed", <<>>)
    /\ spc' = "fallback"
    /\ UNCHANGED <<scoreFrame, s_raised, s_exit_status, s_traceback, n, chunks_seen,
                   full_response, result_text, runs, score_file>>

\* The stream ends: the accumulated text is returned.
StreamEnd ==
    /\ spc = "streaming"
    /\ judgeLog' = EndLastCall(judgeLog, "ok", full_response)
    /\ result_text' = full_response
    /\ spc' = "parse"
    /\ UNCHANGED <<scoreFrame, s_raised, s_exit_status, s_traceback, n, chunks_seen,
                   full_response, runs, score_file>>

\* The except branch where a failed call drops its repetition and the loop
\* goes on.
FallbackSkippingRepetition ==
    /\ spc = "fallback"
    /\ \/ /\ \E text \in ResponseTexts :
                /\ judgeLog' = Append(judgeLog, JudgeCall("create", Content, "ok", text))
                /\ result_text' = text
          /\ spc' = "parse"
          /\ UNCHANGED <<s_raised, s_exit_status, s_traceback, n>>
       \/ /\ judgeLog' = Append(judgeLog, JudgeCall("create", Content, "failed", <<>>))
          /\ n' = n + 1
          /\ spc' = "loop"
          /\ UNCHANGED <<s_raised, s_exit_status, s_traceback, result_text>>
    /\ UNCHANGED <<scoreFrame, chunks_seen, full_response, runs, score_file>>

\* The except branch where the response is appended to what the stream had
\* delivered (full_response is not reset).
FallbackKeepingPartial ==
    /\ spc = "fallback"
    /\ \/ /\ \E text \in ResponseTexts :
                /\ judgeLog' = Append(judgeLog, JudgeCall("create", Content, "ok", text))
                /\ result_text' = full_response \o text
          /\ spc' = "parse"
          /\ UNCHANGED <<s_raised, s_exit_status, s_traceback>>
       \/ /\ judgeLog' = Append(judgeLog, JudgeCall("create", Content, "failed", <<>>))
          /\ ScoreRaise("judge_failed")
          /\ UNCHANGED result_text
    /\ UNCHANGED <<scoreFrame, n, chunks_seen, full_response, runs, score_file>>

\* The except branch: one non-streaming call with the same arguments; its
\* text is returned, or its exception leaves evaluate_results.
Fallback ==
    /\ spc = "fallback"
    /\ \/ /\ \E text \in ResponseTexts :
                /\ judgeLog' = Append(judgeLog, JudgeCall("create", Content, "ok", text))
                /\ result_text' = text
          /\ spc' = "parse"
          /\ UNCHANGED <<s_raised, s_exit_status, s_traceback>>
       \/ /\ judgeLog' = Append(judgeLog, JudgeCall("create", Content, "failed", <<>>))
          /\ ScoreRaise("judge_failed")
          /\ UNCHANGED result_text
    /\ UNCHANGED <<scoreFrame, n, chunks_seen, full_response, runs, score_file>>

\* The loop body where a record that did not parse is not appended.
ParseAndAppendDroppingUnparsed ==
    /\ spc = "parse"
    /\ runs' = IF ParseScore(result_text).parse_error
               THEN runs
               ELSE Append(runs, ParseScore(result_text))
    /\ n' = n + 1
    /\ spc' = "loop"
    /\ UNCHANGED <<scoreFrame, s_raised, s_exit_status, s_traceback, chunks_seen,
                   full_response, result_text, judgeLog, score_file>>

\* parsed = parse_score(result_text); runs.append(parsed)
ParseAndAppend ==
    /\ spc = "parse"
    /\ runs' = Append(runs, ParseScore(result_text))
    /\ n' = n + 1
    /\ spc' = "loop"
    /\ UNCHANGED <<scoreFrame, s_raised, s_exit_status, s_traceback, chunks_seen,
                   full_response, result_text, judgeLog, score_file>>

\* After the loop: the statistics, the output structure, the JSON file.
WriteScores ==
    /\ spc = "write_scores"
    /\ score_file' = <<[metadata |-> [scoring_api |-> scoring_api,
                                      scoring_model |-> ScoringModel,
                                      repetitions |-> repetitions],
                        runs |-> runs,
                        summary |-> CalculateStatistics(runs)]>>
    /\ spc' = "done"
    /\ s_exit_status' = 0
    /\ UNCHANGED <<scoreFrame, s_raised, s_traceback, n, chunks_seen, full_response,
                   result_text, runs, judgeLog>>

\* KeyboardInterrupt: inside score_results_file main catches it and exits
\* with 130; in load_config, outside the try, it leaves main uncaught.  It is
\* no Exception, so the streaming handler does not see it.
ScoreInterrupt ==
    /\ spc \notin {"idle", "done", "error", "interrupted"}
    /\ spc' = "interrupted"
    /\ s_raised' = "KeyboardInterrupt"
    /\ s_exit_status' = 130
    /\ s_traceback' = (spc = "load_config")
    /\ UNCHANGED <<scoreFrame, n, chunks_seen, full_response, result_text, runs,
                   judgeLog, score_file>>

ScoreNext ==
    \/ ScoreLoadConfig
    \/ CheckResults
    \/ CreateClient
    \/ LoopHead
    \/ StreamOpen
    \/ StreamChunk
    \/ StreamFail
    \/ StreamEnd
    \/ Fallback
    \/ ParseAndAppend
    \/ WriteScores
    \/ ScoreInterrupt

\* ====================================================== parse_score alone
\* The texts parse_score is called with: every way of putting together
\*   prefix  integer  gap  "out"  gap  "of"  gap  integer  suffix
\* from the pieces below, well-formed or broken.
TextPrefixes ==
    { <<>>, <<"x">>, <<"7">>,
      <<"2", " ", "O", "U", "T", " ", "O", "F", " ", "9", " ">> }

FirstIntegers == { <<>>, <<"0">>, <<"5">>, <<"5", "8">>, <<"8", "7">> }

FirstGaps == { <<>>, <<" ">>, <<"\n", "\t">> }

OutWords ==
    { <<"o", "u", "t">>, <<"O", "U", "T">>, <<"O", "u", "t">>, <<"o", "u">> }

SecondGaps == { <<>>, <<" ">> }

OfWords == { <<"o", "f">>, <<"O", "F">>, <<"O", "f">> }

ThirdGaps == { <<>>, <<" ">> }

SecondIntegers ==
    { <<>>, <<"0">>, <<"3">>, <<"1", "0", "0">>, <<"1", "1", "6">> }

TextSuffixes ==
    { <<>>, <<"9">>, <<" ", "o", "k", " ">>,
      <<" ", "4", " ", "o", "u", "t", " ", "o", "f", " ", "5">> }

ParseTexts ==
    { pre \o i1 \o g1 \o w1 \o g2 \o w2 \o g3 \o i2 \o suf :
        pre \in TextPrefixes, i1 \in FirstIntegers, g1 \in FirstGaps,
        w1 \in OutWords, g2 \in SecondGaps, w2 \in OfWords, g3 \in ThirdGaps,
        i2 \in SecondIntegers, suf \in TextSuffixes }

ParseIdle ==
    /\ p_pc = "idle"
    /\ p_text = <<>>
    /\ p_parsed = NoRecord

ParseStart ==
    /\ p_pc = "input"
    /\ p_text \in ParseTexts
    /\ p_parsed = NoRecord

\* parsed = parse_score(result_text)
ParseCall ==
    /\ p_pc = "input"
    /\ p_parsed' = ParseScore(p_text)
    /\ p_pc' = "parsed"
    /\ UNCHANGED <<parseFrame, p_text>>

\* ============================================ calculate_statistics alone
\* The judge texts whose records make up the lists calculate_statistics is
\* called with: three scores, a score of nothing, and a text with no score.
StatsTexts ==
    { <<"5", " ", "o", "u", "t", " ", "o", "f", " ", "8">>,
      <<"7", " ", "o", "u", "t", " ", "o", "f", " ", "8">>,
      <<"3", " ", "o", "u", "t", " ", "o", "f", " ", "4">>,
      <<"0", " ", "o", "u", "t", " ", "o", "f", " ", "0">>,
      <<"n", "/", "a">> }

StatsRecords == {ParseScore(t) : t \in StatsTexts}

NoStats ==
    [mean_correct |-> None, mean_percentage |-> None, min_correct |-> None,
     max_correct |-> None, all_runs_parsed |-> FALSE]

StatsIdle ==
    /\ st_pc = "idle"
    /\ st_runs = <<>>
    /\ st_stats = NoStats

StatsStart ==
    /\ st_pc = "input"
    /\ st_runs \in SeqsUpTo(StatsRecords, MaxRuns)
    /\ st_stats = NoStats

\* stats = calculate_statistics(runs)
StatsCall ==
    /\ st_pc = "input"
    /\ st_stats' = CalculateStatistics(st_runs)
    /\ st_pc' = "computed"
    /\ UNCHANGED <<statsFrame, st_runs>>

\* ================================ run-test-suite.py: two invocations at once
\* Two processes run the command for the same test suite, so with the same
\* configuration and questions; each has its own locals, and results/ is
\* shared.  The suite is complete (the setup checks pass).
Invocations == {1, 2}

\* The values datetime.now().strftime("%Y%m%d-%H%M%S") can give while the two
\* are started: one per second of the clock.
Seconds == {1, 2}

\* The rows of the questions file of the suite.
ConcQuestions == <<QuestionRow(1)>>

ConcIdle ==
    /\ c_models = <<>>
    /\ c_pattern = <<>>
    /\ c_timestamp = <<>>
    /\ c_pc = <<>>
    /\ c_model_idx = <<>>
    /\ c_output = <<>>
    /\ c_metadata = <<>>
    /\ c_fs = <<>>
    /\ c_writeLog = <<>>

ConcStart ==
    /\ c_models \in SeqsUpTo(ModelNames, MaxModels) \ {<<>>}
    /\ c_pattern \in FilenamePatterns
    /\ c_timestamp = [p \in Invocations |-> 0]
    /\ c_pc = [p \in Invocations |-> "start"]
    /\ c_model_idx = [p \in Invocations |-> 0]
    /\ c_output = [p \in Invocations |-> <<>>]
    /\ c_metadata = [p \in Invocations |-> <<>>]
    /\ c_fs = <<>>
    /\ c_writeLog = <<>>

\* results_path of invocation p: results/<test_suite>_<timestamp>; the suite
\* is the same, so the timestamp names the directory.
ResultsPath(p) == c_timestamp[p]

\* output_path of invocation p for its current model.
OutputPath(p) ==
    <<ResultsPath(p),
      FormatFilename(c_pattern, c_models[c_model_idx[p]], c_timestamp[p])>>

\* The timestamp is taken from the clock and the run directory is made with
\* exist_ok=True: a directory of that name that is already there is used.
ConcMakeResultsDir(p) ==
    /\ c_pc[p] = "start"
    /\ \E t \in Seconds : c_timestamp' = [c_timestamp EXCEPT ![p] = t]
    /\ c_pc' = [c_pc EXCEPT ![p] = "next_model"]
    /\ UNCHANGED <<concFrame, c_model_idx, c_output, c_metadata, c_fs, c_writeLog>>

\* The head of the per-model loop.
ConcNextModel(p) ==
    /\ c_pc[p] = "next_model"
    /\ IF c_model_idx[p] < Len(c_models)
       THEN /\ c_model_idx' = [c_model_idx EXCEPT ![p] = @ + 1]
            /\ c_output' = [c_output EXCEPT ![p] = <<>>]
            /\ c_pc' = [c_pc EXCEPT ![p] = "questions"]
       ELSE /\ c_pc' = [c_pc EXCEPT ![p] = "write_manifest"]
            /\ UNCHANGED <<c_model_idx, c_output>>
    /\ UNCHANGED <<concFrame, c_timestamp, c_metadata, c_fs, c_writeLog>>

\* The row loop: every row is asked and its block appended; a failed call
\* ends the invocation.
ConcAsk(p) ==
    /\ c_pc[p] = "questions"
    /\ \/ \E results \in [DOMAIN ConcQuestions -> Answers] :
             /\ c_output' = [c_output EXCEPT ![p] =
                    FormatBlock(ConcQuestions[1], results[1])]
             /\ c_pc' = [c_pc EXCEPT ![p] = "open_output"]
       \/ /\ c_pc' = [c_pc EXCEPT ![p] = "error"]
          /\ UNCHANGED c_output
    /\ UNCHANGED <<concFrame, c_timestamp, c_model_idx, c_metadata, c_fs, c_writeLog>>

\* open(output_path, "w"): the file is created, or the one of that name
\* emptied.
ConcOpenOutput(p) ==
    /\ c_pc[p] = "open_output"
    /\ c_fs' = WriteFile(c_fs, OutputPath(p),
                         [kind |-> "transcript", body |-> <<>>, by |-> p])
    /\ c_pc' = [c_pc EXCEPT ![p] = "write_output"]
    /\ UNCHANGED <<concFrame, c_timestamp, c_model_idx, c_output, c_metadata,
                   c_writeLog>>

\* f.write(output) and the close of the file.
ConcWriteOutput(p) ==
    /\ c_pc[p] = "write_output"
    /\ c_fs' = WriteFile(c_fs, OutputPath(p),
                         [kind |-> "transcript", body |-> c_output[p], by |-> p])
    /\ c_writeLog' = Append(c_writeLog,
                            [by |-> p, path |-> OutputPath(p), kind |-> "transcript"])
    /\ c_pc' = [c_pc EXCEPT ![p] = "update_manifest"]
    /\ UNCHANGED <<concFrame, c_timestamp, c_model_idx, c_output, c_metadata>>

\* test_run_metadata["models"].append(...)
ConcUpdateManifest(p) ==
    /\ c_pc[p] = "update_manifest"
    /\ c_metadata' = [c_metadata EXCEPT ![p] =
            Append(@, [model_name |-> c_models[c_model_idx[p]],
                       results_file |-> OutputPath(p)])]
    /\ c_pc' = [c_pc EXCEPT ![p] = "next_model"]
    /\ UNCHANGED <<concFrame, c_timestamp, c_model_idx, c_output, c_fs, c_writeLog>>

\* json.dump of the manifest to resultset.json in the run directory.
ConcWriteManifest(p) ==
    /\ c_pc[p] = "write_manifest"
    /\ c_fs' = WriteFile(c_fs, <<ResultsPath(p), ManifestName>>,
                         [kind |-> "manifest", body |-> c_metadata[p], by |-> p])
    /\ c_writeLog' = Append(c_writeLog,
                            [by |-> p, path |-> <<ResultsPath(p), ManifestName>>,
                             kind |-> "manifest"])
    /\ c_pc' = [c_pc EXCEPT ![p] = "done"]
    /\ UNCHANGED <<concFrame, c_timestamp, c_model_idx, c_output, c_metadata>>

ConcNext ==
    \E p \in Invocations :
        \/ ConcMakeResultsDir(p)
        \/ ConcNextModel(p)
        \/ ConcAsk(p)
        \/ ConcOpenOutput(p)
        \/ ConcWriteOutput(p)
        \/ ConcUpdateManifest(p)
        \/ ConcWriteManifest(p)

\* ========================================================= specifications
RunInit == RunStart /\ ScoreIdle /\ ParseIdle /\ StatsIdle /\ ConcIdle

ScoreInit == RunIdle /\ ScoreStart /\ ParseIdle /\ StatsIdle /\ ConcIdle

ParseInit == RunIdle /\ ScoreIdle /\ ParseStart /\ StatsIdle /\ ConcIdle

StatsInit == RunIdle /\ ScoreIdle /\ ParseIdle /\ StatsStart /\ ConcIdle

ConcInit == RunIdle /\ ScoreIdle /\ ParseIdle /\ StatsIdle /\ ConcStart

\* The run command.
RunSpec == RunInit /\ [][RunNext]_vars

\* The score command.
ScoreSpec == ScoreInit /\ [][ScoreNext]_vars

\* Either command.
Init == RunInit \/ ScoreInit

Next == RunNext \/ ScoreNext

Spec == Init /\ [][Next]_vars

\* parse_score, called once with any of the texts.
ParseNext == ParseCall

ParseSpec == ParseInit /\ [][ParseNext]_vars

\* calculate_statistics, called once with any of the lists.
StatsNext == StatsCall

StatsSpec == StatsInit /\ [][StatsNext]_vars

\* Two invocations of the run command, interleaved in any way.
ConcSpec == ConcInit /\ [][ConcNext]_vars

\* =================================================== claims: the run command
NumQuestions == Len(questions)

\* The writes of transcripts, in order (the manifest's write left out).
TranscriptWrites == SelectSeq(writeLog, LAMBDA w : w.content.kind = "transcript")

ManifestWrites == SelectSeq(writeLog, LAMBDA w : w.content.kind = "manifest")

\* The transcript text is exactly one block per source row, in source order,
\* block i holding row i and the answer of the i-th call made for model k.
IsTranscriptOf(body, k) ==
    /\ Len(body) = 10 * NumQuestions
    /\ \A i \in 1..NumQuestions :
         SubSeq(body, 10 * (i - 1) + 1, 10 * i) =
            <<"---", "NO.", questions[i].ID, questions[i].Section,
              "QUESTION:", questions[i].Question,
              "EXPECTED ANSWER:", questions[i].ExpectedAnswer,
              "ACTUAL ANSWER:", askLog[(k - 1) * NumQuestions + i].result>>

\* C1: a run makes one ask call per record and model, in source order, with
\* no retry and no batching (the j-th call of the run is for model
\* (j-1) div N + 1 and record (j-1) mod N + 1); every transcript written is
\* exactly N blocks in source order, block i carrying record i and the answer
\* of the i-th call of its model; a completed run has made M * N calls.
C1_OneAskPerRecordInOrder ==
    /\ \A j \in 1..Len(askLog) :
         LET k == ((j - 1) \div NumQuestions) + 1
             i == ((j - 1) % NumQuestions) + 1
         IN /\ askLog[j].model_idx = k
            /\ askLog[j].model = models[k]
            /\ askLog[j].question = questions[i].Question
    /\ \A w \in 1..Len(TranscriptWrites) :
         /\ TranscriptWrites[w].model_idx = w
         /\ IsTranscriptOf(TranscriptWrites[w].content.body, w)
    /\ pc = "done" =>
         /\ Len(askLog) = Len(models) * NumQuestions
         /\ Len(TranscriptWrites) = Len(models)
         /\ \A j \in 1..Len(askLog) : askLog[j].result \in Answers

C1_Witness ==
    /\ pc = "done"
    /\ Len(models) = 2
    /\ NumQuestions = 2
    /\ questions[1].ID # questions[2].ID
    /\ askLog[1].result # askLog[2].result
    /\ askLog[1].result # askLog[3].result

\* C3: a failed ask call is the last call the run makes (no retry, no skip,
\* no further question); the run is then in error, nothing was written for
\* the failing model, and every transcript file on disk is a complete
\* transcript written by this run.
C3_AskFailureAbortsTranscript ==
    /\ \A j \in 1..Len(askLog) :
         askLog[j].result = "failed" =>
            j = Len(askLog) /\ raised = "ask_failed" /\ pc = "error"
    /\ raised = "ask_failed" =>
         /\ pc = "error"
         /\ askLog # <<>>
         /\ askLog[Len(askLog)].result = "failed"
         /\ askLog[Len(askLog)].model_idx = model_idx
         /\ Len(writeLog) = model_idx - 1
         /\ \A w \in 1..Len(writeLog) :
               /\ writeLog[w].model_idx < model_idx
               /\ writeLog[w].content.kind = "transcript"
         /\ \A f \in DOMAIN fs :
               /\ fs[f].kind = "transcript"
               /\ Len(fs[f].body) = 10 * NumQuestions
               /\ \E w \in 1..Len(writeLog) :
                     writeLog[w].name = f /\ writeLog[w].content = fs[f]

\* The second model fails on its second question, with one block already in
\* its buffer and the first model's transcript on disk.
C3_Witness ==
    /\ raised = "ask_failed"
    /\ model_idx = 2
    /\ question_count = 1
    /\ output # <<>>
    /\ Len(writeLog) = 1

\* The file of model k, and whether it holds model k's complete transcript.
FileOf(k) == FormatFilename(filename_pattern, models[k], Timestamp)

TranscriptOnDisk(k) ==
    /\ k <= Len(TranscriptWrites)
    /\ FileOf(k) \in DOMAIN fs
    /\ fs[FileOf(k)].kind = "transcript"
    /\ fs[FileOf(k)] = TranscriptWrites[k].content
    /\ IsTranscriptOf(fs[FileOf(k)].body, k)

\* C4: whenever a model has been asked a question, the transcript files of
\* all models before it are on disk with their complete content; and when
\* the process has crashed, so are the files of all models that completed.
C4_EarlierTranscriptsOnDisk ==
    /\ \A j \in 1..Len(askLog) :
         \A k \in 1..(askLog[j].model_idx - 1) : TranscriptOnDisk(k)
    /\ pc = "crashed" =>
         \A k \in 1..Len(TranscriptWrites) : TranscriptOnDisk(k)

\* C5: the manifest is written at most once, and only after every model's
\* transcript was written; a run that crashed or aborted before all models
\* completed has no manifest on disk, and the transcripts persisted so far
\* are still there.
C5_ManifestOnceAtEnd ==
    /\ Len(ManifestWrites) <= 1
    /\ ManifestWrites # <<>> =>
         /\ Len(TranscriptWrites) = Len(models)
         /\ writeLog[Len(writeLog)].content.kind = "manifest"
    /\ (pc \in {"crashed", "error"} /\ Len(TranscriptWrites) < Len(models)) =>
         /\ \A f \in DOMAIN fs : fs[f].kind # "manifest"
         /\ \A k \in 1..Len(TranscriptWrites) : TranscriptOnDisk(k)

\* ================================================= claims: both commands
SetupErrors ==
    {"suite_not_found", "config_not_found", "no_models", "questions_not_found",
     "results_not_found"}

\* C2: a command that ends with a setup error (no test suite, no
\* configuration file, no models, no questions file, no results file) ends
\* in error with status 1 and has made no ask call and no judge call; and a
\* command started where one of these is missing never makes such a call.
C2_SetupErrorsBeforeAnyCall ==
    /\ raised \in SetupErrors =>
         pc = "error" /\ exit_status = 1 /\ askLog = <<>>
    /\ s_raised \in SetupErrors =>
         spc = "error" /\ s_exit_status = 1 /\ judgeLog = <<>>
    /\ (~suite_exists \/ ~config_exists \/ models = <<>> \/ ~questions_exists) =>
         askLog = <<>> /\ pc # "done"
    /\ (~scoring_config_exists \/ ~results_file_exists) =>
         judgeLog = <<>> /\ spc # "done"

\* The last of the setup checks of the run command fails.
C2_Witness ==
    /\ raised = "questions_not_found"
    /\ pc = "error"
    /\ models # <<>>
    /\ results_dir

\* ================================================= claims: the score command
\* The calls of invocation r (repetition r), as positions of the log.
CallsOf(r) == {j \in 1..Len(judgeLog) : judgeLog[j].run_number = r}

SameArguments(a, b) ==
    /\ a.api = b.api
    /\ a.model = b.model
    /\ a.system = b.system
    /\ a.content = b.content
    /\ a.run_number = b.run_number

\* C6: a non-streaming call is made only right after the failed streaming
\* call of the same invocation and with the same model, prompt and content;
\* a failed streaming call is followed by that call before the invocation
\* returns or raises; an error reaches the caller only from a failed fallback
\* call; an invocation makes at most two calls.  Both providers.
C6_OneFallbackBeforeError ==
    /\ \A j \in 1..Len(judgeLog) :
         LET c == judgeLog[j] IN
         /\ c.mode = "create" =>
               /\ j > 1
               /\ judgeLog[j - 1].mode = "stream"
               /\ judgeLog[j - 1].outcome = "failed"
               /\ SameArguments(judgeLog[j - 1], c)
         /\ (c.mode = "stream" /\ c.outcome = "failed") =>
               IF j = Len(judgeLog)
               THEN spc \in {"fallback", "interrupted"}
               ELSE judgeLog[j + 1].mode = "create"
         /\ (c.mode = "stream" /\ c.outcome # "failed" /\ j < Len(judgeLog)) =>
               judgeLog[j + 1].mode = "stream"
         /\ Cardinality(CallsOf(c.run_number)) <= 2
         /\ c.model = ScoringModel /\ c.system = EvaluationPrompt
         /\ c.content = Content /\ c.api = scoring_api
    /\ s_raised = "judge_failed" =>
         /\ Len(judgeLog) >= 2
         /\ judgeLog[Len(judgeLog)].mode = "create"
         /\ judgeLog[Len(judgeLog)].outcome = "failed"

\* The stream of the second repetition broke after a chunk, with the local
\* provider, and the fallback call failed too.
C6_Witness ==
    /\ s_raised = "judge_failed"
    /\ scoring_api = "local"
    /\ full_response # <<>>
    /\ Len(judgeLog) = 3

\* The texts the invocations returned, in order.
ReturnedCalls == SelectSeq(judgeLog, LAMBDA c : c.outcome = "ok")

\* C7: the runs list has one entry per invocation that returned, in
\* invocation order, parsed or not; invocations are numbered 1, 2, ... in the
\* order they are made and all get the same content and prompt; a completed
\* scoring has made exactly R invocations and written R entries, the number
\* recorded as repetitions in the metadata.
C7_OneEntryPerRepetition ==
    /\ Len(runs) = n
    /\ n <= repetitions
    /\ Len(ReturnedCalls) \in {n, n + 1}
    /\ LET returned == ReturnedCalls
       IN \A i \in 1..Len(runs) :
             /\ returned[i].run_number = i
             /\ runs[i] = ParseScore(returned[i].text)
    /\ \A j \in 1..Len(judgeLog) :
         /\ judgeLog[j].content = Content /\ judgeLog[j].system = EvaluationPrompt
         /\ j > 1 => judgeLog[j].run_number \in
                        {judgeLog[j - 1].run_number, judgeLog[j - 1].run_number + 1}
         /\ j = 1 => judgeLog[j].run_number = 1
    /\ spc = "done" =>
         /\ {judgeLog[j].run_number : j \in 1..Len(judgeLog)} = 1..repetitions
         /\ Len(ReturnedCalls) = repetitions
         /\ Len(runs) = repetitions
         /\ score_file # <<>>
         /\ score_file[1].runs = runs
         /\ score_file[1].metadata.repetitions = Len(score_file[1].runs)

\* Two repetitions, the first not parsed, the second parsed.
C7_Witness ==
    /\ spc = "done"
    /\ repetitions = 2
    /\ runs[1].parse_error
    /\ ~runs[2].parse_error

\* C8: when both calls of a repetition fail the command ends in error with
\* status 1: the failed call is the last call ever made, the repetition is
\* not counted, and no score file is written.
C8_DoubleFailureAbortsScoring ==
    /\ \A j \in 1..Len(judgeLog) :
         (judgeLog[j].mode = "create" /\ judgeLog[j].outcome = "failed") =>
            /\ j = Len(judgeLog)
            /\ s_raised = "judge_failed"
    /\ s_raised = "judge_failed" =>
         /\ spc = "error"
         /\ s_exit_status = 1
         /\ score_file = <<>>
         /\ Len(runs) = n
         /\ \A j \in 1..Len(judgeLog) : judgeLog[j].run_number <= n + 1
         /\ judgeLog[Len(judgeLog)].run_number = n + 1

\* The second repetition fails twice; the first one's record is in runs.
C8_Witness ==
    /\ s_raised = "judge_failed"
    /\ n = 1
    /\ Len(runs) = 1
    /\ repetitions = 2

\* ====================================================== claims: parse_score
\* What "an occurrence of <integer> out of <integer>" means, said without the
\* matcher: digits, whitespace, the letters of "out", whitespace, the letters
\* of "of", whitespace, digits, the two integers being whole integers of the
\* text.  With anyCase the letters may be in either case.
Spaces == {" ", "\t", "\n"}

\* The ends j of the nonempty runs text[from..j] of characters of S.
RunEnds(text, from, S) ==
    {j \in from..Len(text) : \A k \in from..j : text[k] \in S}

Spelled(text, i, word, anyCase) ==
    /\ i + Len(word) - 1 <= Len(text)
    /\ \A k \in 1..Len(word) :
         IF anyCase THEN Lower(text[i + k - 1]) = word[k] ELSE text[i + k - 1] = word[k]

\* The occurrences that start at position i: their two integers, as written.
OccurrencesAt(text, i, anyCase) ==
    IF i > 1 /\ text[i - 1] \in Digits THEN {}
    ELSE UNION { UNION { UNION { UNION {
            { [first |-> SubSeq(text, i, a), second |-> SubSeq(text, d + 1, e)] :
                e \in {x \in RunEnds(text, d + 1, Digits) :
                          x = Len(text) \/ text[x + 1] \notin Digits} }
            : d \in RunEnds(text, c + 3, Spaces) }
            : c \in {x \in RunEnds(text, b + 4, Spaces) :
                       Spelled(text, x + 1, <<"o", "f">>, anyCase)} }
            : b \in {x \in RunEnds(text, a + 1, Spaces) :
                       Spelled(text, x + 1, <<"o", "u", "t">>, anyCase)} }
            : a \in RunEnds(text, i, Digits) }

OccurrenceStarts(text, anyCase) ==
    {i \in 1..Len(text) : OccurrencesAt(text, i, anyCase) # {}}

\* The result is that of the occurrence o: its integers, and no error flag.
ParsedAs(parsed, o) ==
    /\ parsed.correct = Some(ToInt(o.first))
    /\ parsed.total = Some(ToInt(o.second))
    /\ ~parsed.parse_error

\* C9 as stated: the first occurrence in any letter case is the one parsed.
C9_CaseInsensitiveMatch ==
    (p_pc = "parsed" /\ OccurrenceStarts(p_text, TRUE) # {}) =>
        \A o \in OccurrencesAt(p_text, Min(OccurrenceStarts(p_text, TRUE)), TRUE) :
            ParsedAs(p_parsed, o)

\* C9, amended: the match is case-sensitive.  The first occurrence spelled
\* in lower case is the one parsed, whatever occurrences in another letter
\* case come before it; a text with no lower-case occurrence gets the
\* parse-error result, also when it has an occurrence in another case.
C9_CaseSensitiveMatch ==
    p_pc = "parsed" =>
        IF OccurrenceStarts(p_text, FALSE) # {}
        THEN \A o \in OccurrencesAt(p_text, Min(OccurrenceStarts(p_text, FALSE)), FALSE) :
                ParsedAs(p_parsed, o)
        ELSE /\ p_parsed.parse_error
             /\ p_parsed.correct = None
             /\ p_parsed.total = None

\* An occurrence in upper case comes before the first one in lower case, and
\* the lower-case one is parsed.
C9_Witness ==
    /\ p_pc = "parsed"
    /\ OccurrenceStarts(p_text, FALSE) # {}
    /\ Min(OccurrenceStarts(p_text, TRUE)) < Min(OccurrenceStarts(p_text, FALSE))
    /\ ~p_parsed.parse_error

Abs(x) == IF x < 0 THEN -x ELSE x

\* C10: for a text whose first occurrence has the integers c and t, correct
\* is c, total is t, and percentage is c / t * 100 to the nearest hundredth
\* when t > 0 and 0 when t = 0; 58 out of 100 gives 58.00 and 87 out of 116
\* gives 75.00.  (Percentages are in hundredths.)
C10_CorrectTotalPercentage ==
    (p_pc = "parsed" /\ OccurrenceStarts(p_text, FALSE) # {}) =>
        \A o \in OccurrencesAt(p_text, Min(OccurrenceStarts(p_text, FALSE)), FALSE) :
            LET c == ToInt(o.first)
                t == ToInt(o.second)
            IN /\ p_parsed.correct = Some(c)
               /\ p_parsed.total = Some(t)
               /\ p_parsed.percentage # None
               /\ t = 0 => p_parsed.percentage = Some(0)
               /\ t > 0 => 2 * Abs(p_parsed.percentage[1] * t - c * 10000) <= t
               /\ (c = 58 /\ t = 100) => p_parsed.percentage = Some(5800)
               /\ (c = 87 /\ t = 116) => p_parsed.percentage = Some(7500)

\* "87 out of 116" inside a longer text.
C10_Witness ==
    /\ p_pc = "parsed"
    /\ Len(p_text) > 13
    /\ p_parsed.correct = Some(87)
    /\ p_parsed.total = Some(116)
    /\ p_parsed.percentage = Some(7500)

\* The text without its leading and trailing whitespace, said without the
\* scan: the part from its first to its last character that is no whitespace
\* (empty when it has none).
NonSpacePositions(text) == {i \in 1..Len(text) : text[i] \notin Spaces}

Trimmed(text) ==
    IF NonSpacePositions(text) = {} THEN <<>>
    ELSE SubSeq(text, Min(NonSpacePositions(text)), Max(NonSpacePositions(text)))

\* C11 as stated: for a text with no occurrence of <integer> out of <integer>
\* the result has correct, total and percentage null, the parse-error flag
\* set, and the raw text character for character, leading and trailing
\* whitespace included.
C11_NoMatchRawVerbatim ==
    (p_pc = "parsed" /\ OccurrenceStarts(p_text, FALSE) = {}) =>
        /\ p_parsed.correct = None
        /\ p_parsed.total = None
        /\ p_parsed.percentage = None
        /\ p_parsed.parse_error
        /\ p_parsed.raw_output = p_text

\* C11, amended: for a text with no occurrence the result has correct, total
\* and percentage null, the parse-error flag set, and the raw text with its
\* leading and trailing whitespace removed, every other character kept.
C11_NoMatchRawStripped ==
    (p_pc = "parsed" /\ OccurrenceStarts(p_text, FALSE) = {}) =>
        /\ p_parsed.correct = None
        /\ p_parsed.total = None
        /\ p_parsed.percentage = None
        /\ p_parsed.parse_error
        /\ p_parsed.raw_output = Trimmed(p_text)

\* A text with no occurrence that starts and ends with whitespace.
C11_Witness ==
    /\ p_pc = "parsed"
    /\ p_parsed.parse_error
    /\ p_text[1] \in Spaces
    /\ p_text[Len(p_text)] \in Spaces
    /\ p_parsed.raw_output # <<>>
    /\ Len(p_parsed.raw_output) = Len(p_text) - 2

\* ============================================ claims: calculate_statistics
\* The runs of a list that have a parsed score, as positions.
ParsedRuns(rs) == {i \in 1..Len(rs) : rs[i].correct # None}

\* C12 as stated: for every list, the empty one included, all_runs_parsed is
\* true if and only if no run of the list has a null correct.
C12_AllParsedIffEveryRunParsed ==
    st_pc = "computed" =>
        (st_stats.all_runs_parsed <=> ParsedRuns(st_runs) = 1..Len(st_runs))

\* C12, amended: for every list with at least one run, all_runs_parsed is
\* true if and only if no run has a null correct; for the empty list it is
\* false.
C12_AllParsedIffNonEmptyAndEveryRunParsed ==
    st_pc = "computed" =>
        (st_stats.all_runs_parsed <=>
            (st_runs # <<>> /\ ParsedRuns(st_runs) = 1..Len(st_runs)))

\* Three runs, all parsed, two different scores among them.
C12_Witness ==
    /\ st_pc = "computed"
    /\ Len(st_runs) = 3
    /\ st_stats.all_runs_parsed
    /\ st_runs[1].correct # st_runs[2].correct

\* The sum of the values of a function with a finite domain.
RECURSIVE SumFn(_)
SumFn(f) ==
    IF DOMAIN f = {} THEN 0
    ELSE LET i == CHOOSE x \in DOMAIN f : TRUE
         IN f[i] + SumFn([j \in (DOMAIN f) \ {i} |-> f[j]])

\* C13: a run that did not parse is a missing sample, not a zero.  For a
\* list with k >= 1 parsed runs, mean_correct and mean_percentage are the sums
\* over the parsed runs divided by k, to the nearest hundredth, and
\* min_correct / max_correct are the least and greatest correct of the parsed
\* runs; with no parsed run all four are null.  (Means and percentages are
\* in hundredths.)
C13_MeansOverParsedOnly ==
    st_pc = "computed" =>
        LET P == ParsedRuns(st_runs)
            k == Cardinality(P)
            sumCorrect == SumFn([i \in P |-> st_runs[i].correct[1]])
            sumPercentage == SumFn([i \in P |-> st_runs[i].percentage[1]])
        IN IF k = 0
           THEN /\ st_stats.mean_correct = None
                /\ st_stats.mean_percentage = None
                /\ st_stats.min_correct = None
                /\ st_stats.max_correct = None
           ELSE /\ st_stats.mean_correct # None
                /\ 2 * Abs(st_stats.mean_correct[1] * k - 100 * sumCorrect) <= k
                /\ st_stats.mean_percentage # None
                /\ 2 * Abs(st_stats.mean_percentage[1] * k - sumPercentage) <= k
                /\ st_stats.min_correct # None
                /\ \E i \in P : st_runs[i].correct = st_stats.min_correct
                /\ \A i \in P : st_stats.min_correct[1] <= st_runs[i].correct[1]
                /\ st_stats.max_correct # None
                /\ \E i \in P : st_runs[i].correct = st_stats.max_correct
                /\ \A i \in P : st_stats.max_correct[1] >= st_runs[i].correct[1]

\* Three runs, the second not parsed, the others 5 and 7 out of 8: the mean
\* is 6.00 and 75.00 percent, over two runs.
C13_Witness ==
    /\ st_pc = "computed"
    /\ Len(st_runs) = 3
    /\ st_runs[1].correct = Some(5)
    /\ st_runs[2].correct = None
    /\ st_runs[3].correct = Some(7)
    /\ st_stats.mean_correct = Some(600)
    /\ st_stats.mean_percentage = Some(7500)
    /\ st_stats.min_correct = Some(5)
    /\ st_stats.max_correct = Some(7)
    /\ ~st_stats.all_runs_parsed

\* ====================================== claims: the score command, continued
\* The errors of the setup of the score command.
ScoreSetupErrors ==
    {"config_not_found", "results_not_found", "api_key_missing", "unsupported_api"}

\* C14: with repetitions = 0 the score command makes no judge call and never
\* enters a repetition; it fails only in its setup, never in the loop or the
\* aggregation; and when it completes it has written a score artifact whose
\* runs list is empty and whose mean, minimum and maximum fields are all
\* null, and ends with status 0.
C14_ZeroRepetitionsEmptyArtifact ==
    repetitions = 0 =>
        /\ judgeLog = <<>>
        /\ runs = <<>>
        /\ spc \notin {"evaluate", "streaming", "fallback", "parse"}
        /\ spc = "error" => s_raised \in ScoreSetupErrors
        /\ spc = "done" =>
              /\ s_exit_status = 0
              /\ s_raised = "none"
              /\ score_file # <<>>
              /\ score_file[1].runs = <<>>
              /\ score_file[1].metadata.repetitions = 0
              /\ score_file[1].summary.mean_correct = None
              /\ score_file[1].summary.mean_percentage = None
              /\ score_file[1].summary.min_correct = None
              /\ score_file[1].summary.max_correct = None

\* A scoring with no repetition has completed.
C14_Witness ==
    /\ repetitions = 0
    /\ spc = "done"
    /\ score_file # <<>>
    /\ score_file[1].runs = <<>>

\* ===================================== claims: two invocations of the run
\* C15: two concurrent invocations never collide on the filesystem: no two
\* writes of different invocations go to the same run directory, so every
\* file is the one its last writer among a single invocation left, and no
\* file on disk was written over by the other invocation.
C15_RunDirectoriesExclusive ==
    /\ \A i, j \in 1..Len(c_writeLog) :
          c_writeLog[i].path[1] = c_writeLog[j].path[1] =>
             c_writeLog[i].by = c_writeLog[j].by
    /\ \A i \in 1..Len(c_writeLog) :
          c_fs[c_writeLog[i].path].by = c_writeLog[i].by

\* ============================================= claims: the score command, 3
\* C16: an interrupt at any point of the score command after the argument
\* check (while the configuration is loaded, during a streaming call, during
\* a fallback call, between repetitions) ends the process with status 130 and
\* without a stack trace; an interrupt during streaming is not taken for a
\* stream failure: the open stream call stays the last call made.
C16_InterruptExits130 ==
    /\ s_raised = "KeyboardInterrupt" =>
          /\ spc = "interrupted"
          /\ s_exit_status = 130
          /\ ~s_traceback
    /\ \A j \in 1..Len(judgeLog) :
          judgeLog[j].outcome = "open" =>
             j = Len(judgeLog) /\ spc \in {"streaming", "interrupted"}

\* The chunks of a stream, put together in arrival order.
RECURSIVE Concat(_)
Concat(chunks) == IF chunks = <<>> THEN <<>> ELSE chunks[1] \o Concat(Tail(chunks))

\* The last call made: the streaming call of the invocation at hand, or its
\* fallback call.
LastCall == judgeLog[Len(judgeLog)]

\* C17: the value an invocation returns to the scoring loop is never partial
\* text.  If its stream ended well it is the concatenation of all the chunks
\* the stream delivered, in arrival order; if its stream failed, with or
\* without chunks already accumulated, it is exactly the text of the fallback
\* response.  A failed call gives no text.
C17_NoPartialText ==
    /\ spc = "parse" =>
          /\ LastCall.run_number = n + 1
          /\ LastCall.outcome = "ok"
          /\ LastCall.mode = "stream" => result_text = Concat(chunks_seen)
          /\ LastCall.mode = "create" =>
                /\ result_text = LastCall.text
                /\ result_text \in ResponseTexts
          /\ LastCall.text = result_text
    /\ \A j \in 1..Len(judgeLog) :
          judgeLog[j].outcome = "failed" => judgeLog[j].text = <<>>

\* A stream broke after it had delivered a chunk, and the fallback's text
\* was returned.
C17_Witness ==
    /\ spc = "parse"
    /\ LastCall.mode = "create"
    /\ chunks_seen # <<>>
    /\ full_response # <<>>
    /\ result_text = LastCall.text
    /\ result_text # full_response

\* =========================================== claims: the run command, continued
\* The transcript files on disk.
TranscriptFiles == {f \in DOMAIN fs : fs[f].kind = "transcript"}

\* C18: a transcript file is written once and never changed afterwards: for
\* every list of models, equal names included, and every filename pattern,
\* every transcript the run has written is still on disk as it was written,
\* whatever was persisted after it (a later transcript, the manifest); and a
\* completed run with M models has left M distinct transcript files.
C18_TranscriptWrittenOnce ==
    /\ \A w \in 1..Len(writeLog) :
          writeLog[w].content.kind = "transcript" =>
             /\ writeLog[w].name \in DOMAIN fs
             /\ fs[writeLog[w].name] = writeLog[w].content
    /\ pc = "done" => Cardinality(TranscriptFiles) = Len(models)

\* ======================================================= claims: both commands, 2
\* The calls of the run that model k answered, in order.
AnsweredBy(k) ==
    SelectSeq(askLog, LAMBDA c : c.model_idx = k /\ c.result # "failed")

\* The text is made of the blocks of the answers model k gave in this run,
\* one block per answer and in order, and of nothing else.
OnlyBlocksOf(body, k) ==
    LET answered == AnsweredBy(k)
    IN /\ Len(body) = 10 * Len(answered)
       /\ \A i \in 1..Len(answered) :
             /\ body[10 * (i - 1) + 1] = "---"
             /\ body[10 * (i - 1) + 6] = answered[i].question
             /\ body[10 * i] = answered[i].result

\* The last call that returned a text.
LastReturnedCall == ReturnedCalls[Len(ReturnedCalls)]

\* C19: no accumulator crosses a model or repetition boundary.  The
\* transcript buffer is empty when a model's first question is asked and
\* holds only blocks of answers the current model gave; every transcript
\* written for model K holds only blocks of answers model K gave in this
\* run.  The stream's accumulator holds only the chunks of the stream at
\* hand, and the record appended for a repetition is the parse of that
\* repetition's own text: every record carries the raw text of its own call.
C19_NoAccumulatorCrossesBoundary ==
    /\ (pc = "questions" /\ question_count = 0) => output = <<>>
    /\ pc \in {"questions", "write_output", "update_manifest"} =>
          OnlyBlocksOf(output, model_idx)
    /\ \A w \in 1..Len(writeLog) :
          writeLog[w].content.kind = "transcript" =>
             OnlyBlocksOf(writeLog[w].content.body, writeLog[w].model_idx)
    /\ spc = "streaming" => full_response = Concat(chunks_seen)
    /\ (spc \in {"loop", "write_scores", "done"} /\ runs # <<>>) =>
          /\ result_text = LastReturnedCall.text
          /\ LastReturnedCall.run_number = Len(runs)
          /\ runs[Len(runs)] = ParseScore(result_text)
    /\ LET returned == ReturnedCalls
       IN \A i \in 1..Len(runs) : runs[i].raw_output = Strip(returned[i].text)

\* Two models answered the same question differently, and the second one's
\* transcript was written.
C19_Witness ==
    /\ pc = "done"
    /\ Len(models) = 2
    /\ NumQuestions = 1
    /\ Len(TranscriptWrites) = 2
    /\ TranscriptWrites[1].content.body # TranscriptWrites[2].content.body
    /\ Len(TranscriptWrites[2].content.body) = 10

\* =========================================== claims: the run command, 3
\* The manifest's list has one entry per transcript persisted so far, in
\* configuration order, each naming its model and the file of its transcript
\* (the entry of the transcript just written is appended in the next step;
\* a process that was terminated has no list any more).
ManifestListsPersisted ==
    /\ pc # "crashed" =>
          Len(test_run_metadata) =
             IF pc = "update_manifest"
             THEN Len(TranscriptWrites) - 1
             ELSE Len(TranscriptWrites)
    /\ \A i \in 1..Len(test_run_metadata) :
          /\ test_run_metadata[i].model_name = models[i]
          /\ test_run_metadata[i].results_file = FileOf(i)
          /\ TranscriptWrites[i].name = FileOf(i)
          /\ TranscriptWrites[i].model_idx = i

\* C20: at every point of a run the manifest's list has one entry per model
\* whose transcript has been persisted, in configuration order, naming the
\* model and its transcript file; on completion the manifest written lists
\* one entry per configured model, and the number of transcript files
\* produced equals the number of configured models.
C20_ManifestMatchesTranscripts ==
    /\ ManifestListsPersisted
    /\ pc = "done" =>
          /\ ManifestName \in DOMAIN fs
          /\ fs[ManifestName].kind = "manifest"
          /\ Len(fs[ManifestName].body) = Len(models)
          /\ fs[ManifestName].body = test_run_metadata
          /\ Cardinality(TranscriptFiles) = Len(models)

\* =========================================== claims: the run command, 4
\* The writes of the run that went to the file f, as positions of the log.
WritesTo(f) == {w \in 1..Len(writeLog) : writeLog[w].name = f}

\* C21: a failed ask call on model K ends the whole run.  No call is made
\* after it, so no model after K is contacted; the process ends with status
\* 1; no manifest is written; and the disk is what the K-1 transcript writes
\* before the failure left: every file is a transcript, with the content of
\* the last write to its name.
C21_AskFailureEndsRun ==
    /\ \A j \in 1..Len(askLog) :
          askLog[j].result = "failed" =>
             /\ \A i \in 1..Len(askLog) :
                   i <= j /\ askLog[i].model_idx <= askLog[j].model_idx
             /\ raised = "ask_failed"
    /\ raised = "ask_failed" =>
          LET K == askLog[Len(askLog)].model_idx
          IN /\ pc = "error"
             /\ exit_status = 1
             /\ askLog[Len(askLog)].result = "failed"
             /\ model_idx = K
             /\ Len(test_run_metadata) = K - 1
             /\ \A w \in 1..Len(writeLog) : writeLog[w].content.kind = "transcript"
             /\ {writeLog[w].model_idx : w \in 1..Len(writeLog)} = 1..(K - 1)
             /\ DOMAIN fs = {writeLog[w].name : w \in 1..Len(writeLog)}
             /\ \A f \in DOMAIN fs :
                   /\ fs[f].kind = "transcript"
                   /\ fs[f] = writeLog[Max(WritesTo(f))].content

\* The first of two models fails on its second question: the second model
\* is never contacted and nothing is on disk.
C21_Witness ==
    /\ raised = "ask_failed"
    /\ pc = "error"
    /\ Len(models) = 2
    /\ model_idx = 1
    /\ Len(askLog) = 2
    /\ fs = <<>>

====
